---- MODULE Spec2Model ----
(***************************************************************************)
(* Model of the movie-dataset cleaning pipeline                            *)
(* (src/notebooks/data_cleaning_script.py).                                *)
(*                                                                         *)
(* A string is a sequence of one-character strings, so that the keyword    *)
(* tests on column names and the character-level cell conversions          *)
(* (deleting '$', ',' and '%', stripping whitespace, parsing digits) are   *)
(* computed, not assumed.  A data-frame cell is a record                   *)
(*     [k |-> kind, s |-> text, n |-> number]                              *)
(* with kind "nan" (NaN / NaT), "none" (Python None, as loaded from        *)
(* SQLite), "str", "num" or "date".                                        *)
(***************************************************************************)
EXTENDS Integers, Sequences, FiniteSets, TLC

\* ------------------------------------------------------------------ bounds

\* Most rows a raw data set holds.
MaxRows == 2

\* Most source files of the named data sets that are missing at once.
MaxMissing == 1

\* Number of successive pipeline runs over the same raw inputs.
MaxRuns == 2

\* ----------------------------------------------------------------- strings

UpperAlphabet ==
    <<"A","B","C","D","E","F","G","H","I","J","K","L","M",
      "N","O","P","Q","R","S","T","U","V","W","X","Y","Z">>

LowerAlphabet ==
    <<"a","b","c","d","e","f","g","h","i","j","k","l","m",
      "n","o","p","q","r","s","t","u","v","w","x","y","z">>

DigitChars == <<"0","1","2","3","4","5","6","7","8","9">>

\* str.lower() on one character.
LowerChar(c) ==
    IF \E i \in DOMAIN UpperAlphabet : UpperAlphabet[i] = c
    THEN LowerAlphabet[CHOOSE i \in DOMAIN UpperAlphabet : UpperAlphabet[i] = c]
    ELSE c

\* col.lower()
Lower(name) == [i \in DOMAIN name |-> LowerChar(name[i])]

\* Python's `x in s` on strings: x is a contiguous substring of s.
Contains(s, x) ==
    \E i \in 1..(Len(s) - Len(x) + 1) : SubSeq(s, i, i + Len(x) - 1) = x

\* any(x in col.lower() for x in keywords)
HasKeyword(name, keywords) == \E x \in keywords : Contains(Lower(name), x)

\* Series.str.replace(<character class>, ''): every listed character deleted.
DeleteChars(s, chars) == SelectSeq(s, LAMBDA c : c \notin chars)

IsSpace(c) == c = " "

\* Series.str.strip(): leading and trailing whitespace removed.
Strip(s) ==
    LET solid == {i \in DOMAIN s : ~IsSpace(s[i])}
    IN  IF solid = {} THEN <<>>
        ELSE LET lo == CHOOSE i \in solid : \A j \in solid : i <= j
                 hi == CHOOSE i \in solid : \A j \in solid : j <= i
             IN  SubSeq(s, lo, hi)

IsDigit(c) == \E i \in DOMAIN DigitChars : DigitChars[i] = c

DigitValue(c) == (CHOOSE i \in DOMAIN DigitChars : DigitChars[i] = c) - 1

AllDigits(s) == Len(s) > 0 /\ \A i \in DOMAIN s : IsDigit(s[i])

RECURSIVE DigitsValue(_)
DigitsValue(s) ==
    IF s = <<>> THEN 0
    ELSE 10 * DigitsValue(SubSeq(s, 1, Len(s) - 1)) + DigitValue(s[Len(s)])

RECURSIVE Digits(_)
\* str(n) for a natural number.
Digits(n) ==
    IF n < 10 THEN <<DigitChars[n + 1]>>
    ELSE Digits(n \div 10) \o <<DigitChars[(n % 10) + 1]>>

\* ------------------------------------------------------------------- cells

NaN == [k |-> "nan", s |-> <<>>, n |-> 0]

None == [k |-> "none", s |-> <<>>, n |-> 0]

Str(s) == [k |-> "str", s |-> s, n |-> 0]

Num(n) == [k |-> "num", s |-> <<>>, n |-> n]

Date(n) == [k |-> "date", s |-> <<>>, n |-> n]

\* Series.astype(str) on one cell: NaN becomes 'nan', None becomes 'None'.
AsStr(c) ==
    CASE c.k = "str"  -> c
      [] c.k = "nan"  -> Str(<<"n","a","n">>)
      [] c.k = "none" -> Str(<<"N","o","n","e">>)
      [] c.k = "num"  -> Str(Digits(c.n))
      [] c.k = "date" -> Str(<<"@">> \o Digits(c.n))

\* pd.to_numeric(..., errors='coerce') on one cell: a string parses when,
\* whitespace aside, it is a run of digits; anything else becomes NaN.
ToNumericCell(c) ==
    CASE c.k = "num"  -> c
      [] c.k = "date" -> Num(c.n)
      [] c.k = "str"  -> IF AllDigits(Strip(c.s)) THEN Num(DigitsValue(Strip(c.s)))
                         ELSE NaN
      [] OTHER        -> NaN

\* A date string is digits '-' digits.
IsDateString(s) ==
    \E i \in DOMAIN s :
        /\ s[i] = "-"
        /\ AllDigits(SubSeq(s, 1, i - 1))
        /\ AllDigits(SubSeq(s, i + 1, Len(s)))

\* pd.to_datetime(..., errors='coerce') on one cell: a number is taken as an
\* offset from the epoch, an unparseable string becomes NaT.
ToDatetimeCell(c) ==
    CASE c.k = "date" -> c
      [] c.k = "num"  -> Date(c.n)
      [] c.k = "str"  -> IF IsDateString(Strip(c.s))
                         THEN Date(DigitsValue(DeleteChars(Strip(c.s), {"-"})))
                         ELSE NaN
      [] OTHER        -> NaN

\* ------------------------------------------------- column names, keywords

KwGross == <<"g","r","o","s","s">>

KwRevenue == <<"r","e","v","e","n","u","e">>

KwBudget == <<"b","u","d","g","e","t">>

KwSales == <<"s","a","l","e","s">>

KwYear == <<"y","e","a","r">>

KwDate == <<"d","a","t","e">>

KwRelease == <<"r","e","l","e","a","s","e">>

KwRating == <<"r","a","t","i","n","g">>

KwScore == <<"s","c","o","r","e">>

KwPercent == <<"p","e","r","c","e","n","t">>

KwRuntime == <<"r","u","n","t","i","m","e">>

KwVoteAverage == <<"v","o","t","e","_","a","v","e","r","a","g","e">>

KwVoteCount == <<"v","o","t","e","_","c","o","u","n","t">>

KwPopularity == <<"p","o","p","u","l","a","r","i","t","y">>


ColTitle == <<"t","i","t","l","e">>

ColGross == <<"G","r","o","s","s">>

ColYear == <<"y","e","a","r">>

ColRating == <<"r","a","t","i","n","g">>

ColReleaseDate == <<"r","e","l","e","a","s","e","_","d","a","t","e">>

ColBudget == <<"b","u","d","g","e","t">>

ColGrossYear == <<"g","r","o","s","s","_","y","e","a","r">>

ColBudgetRelease == <<"b","u","d","g","e","t","_","r","e","l","e","a","s","e">>

ColId == <<"i","d">>

TxtMoney == <<"$","5",",","0">>

TxtPercent == <<"8","%">>

TxtPadded == <<" ","F"," ">>

TxtPlain == <<"F">>

TxtDate == <<"1","-","2">>

TxtNan == <<"n","a","n">>


\* ------------------------------------------------------------------ frames

\* A DataFrame: column names, one dtype per column, and the rows in order.
EmptyFrame == [columns |-> <<>>, dtypes |-> <<>>, rows |-> <<>>]

ColumnsOf(df) == DOMAIN df.columns

\* df[col] = <cells>, with the dtype pandas gives the new column.
SetColumn(df, j, cells, dtype) ==
    [df EXCEPT !.dtypes[j] = dtype,
               !.rows = [i \in DOMAIN df.rows |-> [df.rows[i] EXCEPT ![j] = cells[i]]]]

\* select_dtypes(include=['object']).columns
ObjectColumns(df) == {j \in ColumnsOf(df) : df.dtypes[j] = "object"}

\* dtype of a to_numeric result: integers stay int64 unless a NaN forces float64.
NumericDtype(cells) ==
    IF \A i \in DOMAIN cells : cells[i].k = "num" THEN "int64" ELSE "float64"

\* df[col] = pd.to_numeric(df[col], errors='coerce')
ToNumeric(df, j) ==
    LET cells == [i \in DOMAIN df.rows |-> ToNumericCell(df.rows[i][j])]
    IN  SetColumn(df, j, cells, NumericDtype(cells))

\* Faulty variant of TryToDatetime: a column whose parse raises is blanked.
TryToDatetime_BlanksOnFailure(df, j, fails) ==
    SetColumn(df, j,
              [i \in DOMAIN df.rows |->
                 IF df.columns[j] \in fails THEN NaN ELSE ToDatetimeCell(df.rows[i][j])],
              "datetime64")

\* try: df[col] = pd.to_datetime(df[col], errors='coerce')  except: report.
\* `fails` holds the names of the columns on which to_datetime raises.
TryToDatetime(df, j, fails) ==
    IF df.columns[j] \in fails THEN df
    ELSE SetColumn(df, j, [i \in DOMAIN df.rows |-> ToDatetimeCell(df.rows[i][j])],
                   "datetime64")

\* df[col].astype(str).str.replace(r'[$,]', '', regex=True), then to_numeric.
StripCurrencyToNumeric(df, j) ==
    LET cells == [i \in DOMAIN df.rows |->
                    ToNumericCell(Str(DeleteChars(AsStr(df.rows[i][j]).s, {"$", ","})))]
    IN  SetColumn(df, j, cells, NumericDtype(cells))

\* df[col].astype(str).str.replace('%', ''), then to_numeric.
StripPercentToNumeric(df, j) ==
    LET cells == [i \in DOMAIN df.rows |->
                    ToNumericCell(Str(DeleteChars(AsStr(df.rows[i][j]).s, {"%"})))]
    IN  SetColumn(df, j, cells, NumericDtype(cells))

\* One cell of df[col].astype(str).str.strip() followed by .replace('nan', np.nan).
StripTextCell(c) ==
    LET t == Strip(AsStr(c).s)
    IN  IF t = TxtNan THEN NaN ELSE Str(t)

\* df[col] = df[col].astype(str).str.strip(); df[col] = df[col].replace('nan', np.nan)
StripText(df, j) ==
    SetColumn(df, j, [i \in DOMAIN df.rows |-> StripTextCell(df.rows[i][j])], "object")

\* for col in <columns>: df = Step(df, col).  Every Step reads and assigns
\* column col alone, so the loop's result is each listed column's own step.
ForColumns(df, js, Step(_, _)) ==
    [df EXCEPT
       !.dtypes = [j \in DOMAIN df.dtypes |->
                     IF j \in js THEN Step(df, j).dtypes[j] ELSE df.dtypes[j]],
       !.rows = [i \in DOMAIN df.rows |->
                   [j \in DOMAIN df.columns |->
                      IF j \in js THEN Step(df, j).rows[i][j] ELSE df.rows[i][j]]]]

\* Faulty variant of DropDuplicates: no row is removed.
DropDuplicates_KeepsAll(df) == df

\* DataFrame.drop_duplicates(): the first of each group of equal rows is kept.
DropDuplicates(df) ==
    LET keep(i) == \A h \in 1..(i - 1) : df.rows[h] # df.rows[i]
        kept == {i \in DOMAIN df.rows : keep(i)}
        pos(i) == Cardinality({h \in kept : h <= i})
    IN  [df EXCEPT !.rows = [p \in 1..Cardinality(kept) |->
                               df.rows[CHOOSE i \in kept : pos(i) = p]]]

\* df.duplicated().sum()
DuplicatedCount(df) == Len(df.rows) - Len(DropDuplicates(df).rows)

\* ---------------------------------------------- the named data-set cleaners

\* if df[col].dtype == 'object': strip '$' and ',' and convert to numeric.
MoneyStep(df, j) ==
    IF df.dtypes[j] = "object" THEN StripCurrencyToNumeric(df, j) ELSE df

\* if df[col].dtype == 'object': strip '%' and convert to numeric.
PercentStep(df, j) ==
    IF df.dtypes[j] = "object" THEN StripPercentToNumeric(df, j) ELSE df

ColumnsWithKeyword(df, keywords) ==
    {j \in ColumnsOf(df) : HasKeyword(df.columns[j], keywords)}

\* clean_box_office_data ---------------------------------------------------

BomDropDuplicates(df) ==
    IF DuplicatedCount(df) > 0 THEN DropDuplicates(df) ELSE df

BomMoneyColumns(df) == ColumnsWithKeyword(df, {KwGross, KwRevenue, KwBudget, KwSales})

BomYearColumns(df) == ColumnsWithKeyword(df, {KwYear})

CleanBoxOfficeMoney(df) == ForColumns(df, BomMoneyColumns(df), MoneyStep)

CleanBoxOfficeYear(df) == ForColumns(df, BomYearColumns(df), ToNumeric)

BomTextColumns(df) == ObjectColumns(df) \ BomMoneyColumns(df)

CleanBoxOfficeText(df) == ForColumns(df, BomTextColumns(df), StripText)

\* clean_movie_budgets_data ------------------------------------------------

BudgetsMoneyColumns(df) == ColumnsWithKeyword(df, {KwBudget, KwGross, KwRevenue})

BudgetsDateColumns(df) == ColumnsWithKeyword(df, {KwDate, KwRelease})

CleanBudgetsMoney(df) == ForColumns(df, BudgetsMoneyColumns(df), MoneyStep)

CleanBudgetsDates(df, fails) ==
    ForColumns(df, BudgetsDateColumns(df), LAMBDA d, j : TryToDatetime(d, j, fails))

BudgetsTextColumns(df) ==
    ObjectColumns(df) \ (BudgetsMoneyColumns(df) \cup BudgetsDateColumns(df))

CleanBudgetsText(df) == ForColumns(df, BudgetsTextColumns(df), StripText)

\* clean_tmdb_data ---------------------------------------------------------

TmdbNumericColumns(df) ==
    ColumnsWithKeyword(df, {KwBudget, KwRevenue, KwRuntime, KwVoteAverage,
                            KwVoteCount, KwPopularity})

TmdbDateColumns(df) == ColumnsWithKeyword(df, {KwDate, KwRelease})

CleanTmdbNumeric(df) == ForColumns(df, TmdbNumericColumns(df), ToNumeric)

CleanTmdbDates(df, fails) ==
    ForColumns(df, TmdbDateColumns(df), LAMBDA d, j : TryToDatetime(d, j, fails))

TmdbTextColumns(df) == ObjectColumns(df) \ TmdbDateColumns(df)

CleanTmdbText(df) == ForColumns(df, TmdbTextColumns(df), StripText)

\* clean_rotten_tomatoes_info ----------------------------------------------

RtInfoRatingColumns(df) == ColumnsWithKeyword(df, {KwRating, KwScore, KwPercent})

RtInfoYearColumns(df) == ColumnsWithKeyword(df, {KwYear})

CleanRtInfoRating(df) == ForColumns(df, RtInfoRatingColumns(df), PercentStep)

CleanRtInfoYear(df) == ForColumns(df, RtInfoYearColumns(df), ToNumeric)

RtInfoTextColumns(df) == ObjectColumns(df) \ RtInfoRatingColumns(df)

CleanRtInfoText(df) == ForColumns(df, RtInfoTextColumns(df), StripText)

\* clean_rotten_tomatoes_reviews -------------------------------------------

RtReviewsRatingColumns(df) == ColumnsWithKeyword(df, {KwRating, KwScore})

RtReviewsDateColumns(df) == ColumnsWithKeyword(df, {KwDate})

CleanRtReviewsRating(df) == ForColumns(df, RtReviewsRatingColumns(df), ToNumeric)

CleanRtReviewsDates(df, fails) ==
    ForColumns(df, RtReviewsDateColumns(df), LAMBDA d, j : TryToDatetime(d, j, fails))

RtReviewsTextColumns(df) == ObjectColumns(df) \ RtReviewsDateColumns(df)

CleanRtReviewsText(df) == ForColumns(df, RtReviewsTextColumns(df), StripText)

\* extract_and_clean_imdb_data, the body of the per-table loop -------------

\* Text columns are stripped; every other column is converted to numeric.
CleanImdbTable(df) ==
    LET dedup == DropDuplicates(df)
        text == ObjectColumns(dedup)
        stripped == ForColumns(dedup, text, StripText)
    IN  ForColumns(stripped, ColumnsOf(stripped) \ text, ToNumeric)

\* ----------------------------------------------- the cleaners, step by step

Cleaners == <<"bom", "budgets", "tmdb", "rt_info", "rt_reviews">>

CleanerSet == {Cleaners[i] : i \in DOMAIN Cleaners}

\* The file each cleaner reads from Original_Data.
SourceOf(c) ==
    CASE c = "bom"        -> "bom.movie_gross.csv.gz"
      [] c = "budgets"    -> "tn.movie_budgets.csv.gz"
      [] c = "tmdb"       -> "tmdb.movies.csv.gz"
      [] c = "rt_info"    -> "rt.movie_info.tsv.gz"
      [] c = "rt_reviews" -> "rt.reviews.tsv"

\* The file each cleaner writes to Cleaned_Data.
OutputOf(c) ==
    CASE c = "bom"        -> "bom_movie_gross_cleaned.csv"
      [] c = "budgets"    -> "movie_budgets_cleaned.csv"
      [] c = "tmdb"       -> "tmdb_movies_cleaned.csv"
      [] c = "rt_info"    -> "rt_movie_info_cleaned.csv"
      [] c = "rt_reviews" -> "rt_reviews_cleaned.csv"

\* The duplicate-removal step of cleaner c.
Deduplicate(c, df) ==
    IF c = "bom" THEN BomDropDuplicates(df) ELSE DropDuplicates(df)

\* The first column pass of cleaner c (monetary, numeric or rating).
FirstPass(c, df) ==
    CASE c = "bom"        -> CleanBoxOfficeMoney(df)
      [] c = "budgets"    -> CleanBudgetsMoney(df)
      [] c = "tmdb"       -> CleanTmdbNumeric(df)
      [] c = "rt_info"    -> CleanRtInfoRating(df)
      [] c = "rt_reviews" -> CleanRtReviewsRating(df)

\* The second column pass of cleaner c (year or date).
SecondPass(c, df, fails) ==
    CASE c = "bom"        -> CleanBoxOfficeYear(df)
      [] c = "budgets"    -> CleanBudgetsDates(df, fails)
      [] c = "tmdb"       -> CleanTmdbDates(df, fails)
      [] c = "rt_info"    -> CleanRtInfoYear(df)
      [] c = "rt_reviews" -> CleanRtReviewsDates(df, fails)

\* The text pass of cleaner c.
TextPass(c, df) ==
    CASE c = "bom"        -> CleanBoxOfficeText(df)
      [] c = "budgets"    -> CleanBudgetsText(df)
      [] c = "tmdb"       -> CleanTmdbText(df)
      [] c = "rt_info"    -> CleanRtInfoText(df)
      [] c = "rt_reviews" -> CleanRtReviewsText(df)

\* The columns cleaner c hands to pd.to_datetime.
DateColumns(c, df) ==
    CASE c = "budgets"    -> BudgetsDateColumns(df)
      [] c = "tmdb"       -> TmdbDateColumns(df)
      [] c = "rt_reviews" -> RtReviewsDateColumns(df)
      [] OTHER            -> {}

\* The category of the first and of the second column pass of cleaner c.
FirstCategory(c) ==
    CASE c \in {"bom", "budgets"}        -> "monetary"
      [] c = "tmdb"                      -> "numeric"
      [] c \in {"rt_info", "rt_reviews"} -> "rating"

SecondCategory(c) ==
    IF c \in {"bom", "rt_info"} THEN "year" ELSE "date"

\* The column list each pass of cleaner c loops over (for the text pass: the
\* object columns that pass its `not in` test).
FirstColumns(c, df) ==
    CASE c = "bom"        -> BomMoneyColumns(df)
      [] c = "budgets"    -> BudgetsMoneyColumns(df)
      [] c = "tmdb"       -> TmdbNumericColumns(df)
      [] c = "rt_info"    -> RtInfoRatingColumns(df)
      [] c = "rt_reviews" -> RtReviewsRatingColumns(df)

SecondColumns(c, df) ==
    CASE c = "bom"        -> BomYearColumns(df)
      [] c = "budgets"    -> BudgetsDateColumns(df)
      [] c = "tmdb"       -> TmdbDateColumns(df)
      [] c = "rt_info"    -> RtInfoYearColumns(df)
      [] c = "rt_reviews" -> RtReviewsDateColumns(df)

TextColumns(c, df) ==
    CASE c = "bom"        -> BomTextColumns(df)
      [] c = "budgets"    -> BudgetsTextColumns(df)
      [] c = "tmdb"       -> TmdbTextColumns(df)
      [] c = "rt_info"    -> RtInfoTextColumns(df)
      [] c = "rt_reviews" -> RtReviewsTextColumns(df)

\* Names of the columns at positions js.
Names(df, js) == {df.columns[j] : j \in js}

\* A step a cleaner has taken and the columns its loop ran over.
Taken(name, columns) == [step |-> name, columns |-> columns]

\* The cleaning steps of cleaner c between loading and saving.
CleaningSteps(c, df, fails) ==
    TextPass(c, SecondPass(c, FirstPass(c, Deduplicate(c, df)), fails))

\* ------------------------------------------------------------- CSV output

\* One field of DataFrame.to_csv: a missing value is written empty.
CsvField(c, dtype) ==
    CASE c.k = "str"  -> c.s
      [] c.k = "num"  -> IF dtype = "float64" THEN Digits(c.n) \o <<".","0">>
                         ELSE Digits(c.n)
      [] c.k = "date" -> <<"@">> \o Digits(c.n)
      [] OTHER        -> <<>>

\* The content of the file df.to_csv(path, index=False) leaves: a header line
\* and one line per row.
ToCsv(df) ==
    [header |-> df.columns,
     lines  |-> [i \in DOMAIN df.rows |->
                   [j \in DOMAIN df.columns |-> CsvField(df.rows[i][j], df.dtypes[j])]]]

\* --------------------------------------------------------- files and disk

\* A file of Original_Data: whether it exists, and the table it holds.
NoFile == [exists |-> FALSE, data |-> EmptyFrame]

DataFile(df) == [exists |-> TRUE, data |-> df]

EmptyCsv == [header |-> <<>>, lines |-> <<>>]

\* A file of Cleaned_Data.
NoCsv == [exists |-> FALSE, data |-> EmptyCsv]

SourceFiles == {SourceOf(c) : c \in CleanerSet}

\* Names of the files under Original_Data/extracted, as stem and extension.
ImDb == [stem |-> "im", ext |-> "db"]

OldDb == [stem |-> "old", ext |-> "db"]

Readme == [stem |-> "readme", ext |-> "txt"]

ExtractNames == {ImDb, OldDb, Readme}

\* A file of the extraction directory; `tables` is the database it holds, a
\* sequence of [name, frame] in catalog order (empty for a non-database).
NoEntry == [exists |-> FALSE, tables |-> <<>>]

Entry(tables) == [exists |-> TRUE, tables |-> tables]

TableNames == {"movie_basics", "old_movies", "order"}

\* Table names the unquoted f-string queries cannot name: SQL keywords.
SqlKeywords == {"order"}

\* cleaned_data_path = Path('Cleaned_Data')
cleaned_data_path == "Cleaned_Data"

\* cleaned_data_path / <name>
OutputPath(name) == [dir |-> cleaned_data_path, name |-> name]

\* cleaned_data_path / f'imdb_{table_name}_cleaned.csv'
ImdbOutput(t) == "imdb_" \o t \o "_cleaned.csv"

ImdbOutputs == {ImdbOutput(t) : t \in TableNames}

NamedOutputs == {OutputOf(c) : c \in CleanerSet}

OutputFiles == NamedOutputs \cup ImdbOutputs

\* extract_path.glob('*.db')
IsDbFile(name) == name.ext = "db"

\* Faulty variant of WriteCsv: rows are appended to a file that is already there.
WriteCsv_Appends(files, name, df) ==
    [files EXCEPT ![name] =
       [exists |-> TRUE,
        data   |-> IF files[name].exists
                   THEN [header |-> files[name].data.header,
                         lines  |-> files[name].data.lines \o ToCsv(df).lines]
                   ELSE ToCsv(df)]]

\* df.to_csv(output_file, index=False): the file is created or overwritten.
WriteCsv(files, name, df) == [files EXCEPT ![name] = [exists |-> TRUE, data |-> ToCsv(df)]]

\* zip_ref.extractall(extract_path): every member is written, replacing a file
\* of the same name; other files of the directory stay.
ExtractAll(dir, members) ==
    [n \in ExtractNames |->
       IF \E m \in members : m.name = n
       THEN Entry((CHOOSE m \in members : m.name = n).tables)
       ELSE dir[n]]

\* list(extract_path.glob('*.db')) in the directory order `order`.
DbFiles(dir, order) ==
    SelectSeq(order, LAMBDA n : dir[n].exists /\ IsDbFile(n))

\* ------------------------------------------------------ notebook builders

\* A cell of a notebook document.  `source` stands for the cell's text by what
\* the claims read from it: the paths it hands to pd.read_csv, in order.
MarkdownCell == [cell_type |-> "markdown", source |-> <<>>]

CodeCell(reads) ==
    [cell_type |-> "code", execution_count |-> "None", outputs |-> <<>>,
     source |-> reads]

\* The literal 'cleaned_data/<name>' of a read_csv call.
NotebookPath(name) == [dir |-> "cleaned_data", name |-> name]

\* create_cleaning_notebook(): the title cell and the setup cell.
create_cleaning_notebook ==
    [cells |-> <<MarkdownCell, CodeCell(<<>>)>>,
     nbformat |-> 4,
     nbformat_minor |-> 4]

\* Faulty variant of create_eda_notebook: the loading cell keeps an output.
create_eda_notebook_KeepsOutput ==
    [cells |-> <<MarkdownCell, CodeCell(<<>>), MarkdownCell,
                 [CodeCell(<<NotebookPath("tmdb_movies_cleaned.csv")>>)
                    EXCEPT !.outputs = <<"stream">>]>>,
     nbformat |-> 4,
     nbformat_minor |-> 4]

\* create_eda_notebook(): title, setup, the loading section's heading, and the
\* cell that loads the four cleaned data sets.
create_eda_notebook ==
    [cells |-> <<MarkdownCell,
                 CodeCell(<<>>),
                 MarkdownCell,
                 CodeCell(<<NotebookPath("tmdb_movies_cleaned.csv"),
                            NotebookPath("movie_budgets_cleaned.csv"),
                            NotebookPath("box_office_mojo_cleaned.csv"),
                            NotebookPath("rotten_tomatoes_info_cleaned.csv")>>)>>,
     nbformat |-> 4,
     nbformat_minor |-> 4]

\* json.dump(notebook, f, indent=2), as the parsed file: None is written null.
JsonDump(notebook) ==
    [notebook EXCEPT
       !.cells = [i \in DOMAIN notebook.cells |->
                    IF notebook.cells[i].cell_type = "code"
                    THEN [notebook.cells[i] EXCEPT
                            !.execution_count = IF @ = "None" THEN "null" ELSE @]
                    ELSE notebook.cells[i]]]

NotebookScripts == {"create_notebooks", "create_eda_notebook"}

\* The function each script calls, and the file it writes under notebooks/.
NotebookOf(script) ==
    IF script = "create_notebooks" THEN create_cleaning_notebook
    ELSE create_eda_notebook

NotebookFileOf(script) ==
    IF script = "create_notebooks" THEN "01_data_cleaning_complete.ipynb"
    ELSE "02_exploratory_data_analysis.ipynb"

NotebookFiles == {NotebookFileOf(script) : script \in NotebookScripts}

EmptyNotebook == [cells |-> <<>>, nbformat |-> 0, nbformat_minor |-> 0]

NoNotebook == [exists |-> FALSE, doc |-> EmptyNotebook]

\* The notebooks/ directory: whether it exists, and its files.
NotebooksDir(exists) == [exists |-> exists, files |-> [f \in NotebookFiles |-> NoNotebook]]

\* with open('notebooks/<file>', 'w') as f: json.dump(notebook, f, indent=2)
WriteNotebook(dir, file, notebook) ==
    [dir EXCEPT !.files[file] = [exists |-> TRUE, doc |-> JsonDump(notebook)]]

\* ------------------------------------------------------------------ inputs

\* Column names of the raw data sets: plain text, one keyword in mixed case,
\* and names that carry the keywords of two categories.
ColumnNames ==
    {ColTitle, ColGross, ColYear, ColRating, ColReleaseDate, ColBudget,
     ColGrossYear, ColBudgetRelease}

\* Cells of a column read_csv leaves as strings, and of one it reads as numbers.
ObjectCells ==
    {NaN, Str(TxtMoney), Str(TxtPercent), Str(TxtPadded), Str(TxtPlain), Str(TxtDate)}

NumberCells == {NaN, Num(50)}

IdCells == {Num(1), Num(2)}

SeqsUpTo(S, n) == UNION {[1..m -> S] : m \in 0..n}

\* What read_csv infers: a column is numeric when every cell is a number or
\* missing, and a column of strings holds at least one string.
InferredDtype(cells) ==
    IF Len(cells) > 0 /\ \A i \in DOMAIN cells : cells[i].k \in {"num", "nan"}
    THEN NumericDtype(cells)
    ELSE "object"

\* Raw frames of one column, of up to MaxRows rows.
NarrowFrames ==
    {[columns |-> <<name>>,
      dtypes  |-> <<InferredDtype(cells)>>,
      rows    |-> [i \in DOMAIN cells |-> <<cells[i]>>]] :
        name \in ColumnNames,
        cells \in SeqsUpTo(ObjectCells, MaxRows) \cup SeqsUpTo(NumberCells, MaxRows)}

\* Raw frames of two rows and two columns, the second an integer id.
WideFrames ==
    {[columns |-> <<name, ColId>>,
      dtypes  |-> <<InferredDtype(<<rows[1][1], rows[2][1]>>), "int64">>,
      rows    |-> rows] :
        name \in ColumnNames,
        rows \in ((ObjectCells \X IdCells) \X (ObjectCells \X IdCells))
                 \cup ((NumberCells \X IdCells) \X (NumberCells \X IdCells))}

RawFrames == NarrowFrames \cup WideFrames

\* The end-to-end scenario: four rows, the second an exact duplicate of the
\* first, a gross value in currency format.
ScenarioFrame ==
    [columns |-> <<ColGross, ColId>>,
     dtypes  |-> <<"object", "int64">>,
     rows    |-> << <<Str(TxtMoney), Num(1)>>, <<Str(TxtMoney), Num(1)>>,
                    <<Str(TxtPadded), Num(2)>>, <<NaN, Num(2)>> >>]

\* pd.read_sql_query: a NULL of a text column arrives as None.
SqlFrame(df) ==
    [df EXCEPT !.rows = [i \in DOMAIN df.rows |->
        [j \in DOMAIN df.columns |->
           IF df.dtypes[j] = "object" /\ df.rows[i][j].k = "nan" THEN None
           ELSE df.rows[i][j]]]]

Table(name, df) == [name |-> name, frame |-> df]

\* Databases of the pipeline runs: no table, one table, and a second table
\* whose name is an SQL keyword.
Databases ==
    {<<>>,
     <<Table("movie_basics", SqlFrame(ScenarioFrame))>>,
     <<Table("movie_basics", SqlFrame(ScenarioFrame)),
       Table("order", SqlFrame(ScenarioFrame))>>}

Member(name, tables) == [name |-> name, tables |-> tables]

\* im.db.zip: missing, not a zip file, or an archive with its members.
NoArchive == [state |-> "absent", members |-> {}]

CorruptArchive == [state |-> "corrupt", members |-> {}]

Archive(members) == [state |-> "ok", members |-> members]

Archives ==
    {NoArchive, CorruptArchive, Archive({Member(Readme, <<>>)})}
    \cup {Archive({Member(ImDb, db)}) : db \in Databases}

\* What an earlier run may have left in Original_Data/extracted.
NothingExtracted == [n \in ExtractNames |-> NoEntry]

OldDatabase == <<Table("old_movies", SqlFrame(ScenarioFrame))>>

PriorExtractions ==
    {NothingExtracted,
     [NothingExtracted EXCEPT ![ImDb] = Entry(OldDatabase)],
     [NothingExtracted EXCEPT ![OldDb] = Entry(OldDatabase)]}

\* The order in which the file system lists the extraction directory.
DirectoryOrders == {<<ImDb, OldDb, Readme>>, <<OldDb, ImDb, Readme>>}

\* ------------------------------------------------------------------- state

VARIABLES
    entry,        \* what was invoked: "main", one cleaner, or "imdb"
    pc,           \* the function now running, or "done" / "returned" / "halted"
    stage,        \* the step that function is about to take
    original,     \* Original_Data: source file name -> file
    archive,      \* Original_Data/im.db.zip
    extracted,    \* Original_Data/extracted: name -> entry
    listing,      \* directory order of Original_Data/extracted
    cleaned,      \* Cleaned_Data: output file name -> file
    written,      \* output files written in this run
    df,           \* the frame the running function works on; once it has
                  \* returned, the frame it returned
    dateFails,    \* column names on which pd.to_datetime raises
    conn,         \* the SQLite connection: "none", "open" or "closed"
    dbPath,       \* the database file that was opened
    tables,       \* tables still to be cleaned
    imdbResult,   \* "unset", "None" or "tables"
    returned,     \* the function whose result df is: the one that returned
                  \* last ("table": the table just saved), "" otherwise
    failedAt,     \* the function whose exception ended the run, "" if none
    started,      \* functions entered in this run, in order
    run,          \* the run number
    prevCleaned,  \* Cleaned_Data as the previous run left it
    steps,        \* steps the cleaner entered last has taken, in order
    notebooks     \* the notebooks/ directory

vars ==
    <<entry, pc, stage, original, archive, extracted, listing, cleaned, written,
      df, dateFails, conn, dbPath, tables, imdbResult, returned, failedAt,
      started, run, prevCleaned, steps, notebooks>>

disk == <<original, archive, listing, notebooks>>

NothingCleaned == [f \in OutputFiles |-> NoCsv]

\* The first step of a function.
FirstStage(f) ==
    CASE f \in CleanerSet -> "load"
      [] f = "imdb"       -> "extract"
      [] OTHER            -> "start"

\* Where an invocation starts: __main__ with the inventory, a function
\* called on its own with itself, the notebook builders with either script.
EntryPoints(f) ==
    CASE f = "main"      -> {"inventory"}
      [] f = "notebooks" -> NotebookScripts
      [] OTHER           -> {f}

\* State of a process that is about to run `f`.
Fresh(f) ==
    /\ pc \in EntryPoints(f)
    /\ stage = FirstStage(pc)
    /\ written = {}
    /\ df = EmptyFrame
    /\ conn = "none"
    /\ dbPath = Readme
    /\ tables = <<>>
    /\ imdbResult = "unset"
    /\ returned = ""
    /\ failedAt = ""
    /\ started = <<pc>>
    /\ steps = <<>>

\* The whole pipeline (__main__): at most MaxMissing source files are missing,
\* the others hold the scenario's table.
InitMain ==
    /\ entry = "main"
    /\ \E missing \in SUBSET CleanerSet :
         /\ Cardinality(missing) <= MaxMissing
         /\ original = [f \in SourceFiles |->
                          IF \E c \in missing : SourceOf(c) = f THEN NoFile
                          ELSE DataFile(ScenarioFrame)]
    /\ archive \in Archives
    /\ extracted \in PriorExtractions
    /\ listing \in DirectoryOrders
    /\ dateFails = {}
    /\ notebooks = NotebooksDir(TRUE)

\* One named cleaner called on its own, over any raw frame.
InitCleaner ==
    /\ entry \in CleanerSet
    /\ \E raw \in RawFrames :
         /\ original = [f \in SourceFiles |-> DataFile(raw)]
         /\ dateFails \in SUBSET {raw.columns[j] : j \in DateColumns(entry, raw)}
    /\ archive = NoArchive
    /\ extracted = NothingExtracted
    /\ listing = <<ImDb, OldDb, Readme>>
    /\ notebooks = NotebooksDir(TRUE)

\* extract_and_clean_imdb_data called on its own, over a database of one table
\* holding any raw frame.
InitImdb ==
    /\ entry = "imdb"
    /\ original = [f \in SourceFiles |-> NoFile]
    /\ \E raw \in RawFrames :
         archive = Archive({Member(ImDb, <<Table("movie_basics", SqlFrame(raw))>>)})
    /\ extracted = NothingExtracted
    /\ listing = <<ImDb, OldDb, Readme>>
    /\ dateFails = {}
    /\ notebooks = NotebooksDir(TRUE)

\* The notebook builder scripts, run from a directory that has a notebooks/
\* folder or has none.
InitNotebooks ==
    /\ entry = "notebooks"
    /\ original = [f \in SourceFiles |-> NoFile]
    /\ archive = NoArchive
    /\ extracted = NothingExtracted
    /\ listing = <<ImDb, OldDb, Readme>>
    /\ dateFails = {}
    /\ \E exists \in BOOLEAN : notebooks = NotebooksDir(exists)

Init ==
    /\ (InitMain \/ InitCleaner \/ InitImdb \/ InitNotebooks)
    /\ cleaned = NothingCleaned
    /\ prevCleaned = NothingCleaned
    /\ run = 1
    /\ Fresh(entry)

\* ------------------------------------------------------------ control flow

\* Faulty variant of MainOrder: the extractor is called before the cleaners.
MainOrder_ExtractorFirst ==
    <<"inventory", "imdb", "bom", "budgets", "tmdb", "rt_info", "rt_reviews", "summary">>

\* The order of __main__.
MainOrder ==
    <<"inventory", "bom", "budgets", "tmdb", "rt_info", "rt_reviews", "imdb", "summary">>

PositionOf(f) == CHOOSE i \in DOMAIN MainOrder : MainOrder[i] = f

\* What runs once f has returned: the next call of __main__, or nothing when
\* f was called on its own.
After(f) ==
    IF entry # "main" THEN "returned"
    ELSE IF PositionOf(f) = Len(MainOrder) THEN "done"
         ELSE MainOrder[PositionOf(f) + 1]

\* The running function moves on to its step s.
Goto(s) ==
    /\ pc' = pc
    /\ stage' = s
    /\ started' = started
    /\ returned' = ""
    /\ failedAt' = failedAt

\* The running function returns.
Return ==
    /\ pc' = After(pc)
    /\ stage' = FirstStage(After(pc))
    /\ started' = IF After(pc) \in {"returned", "done"} THEN started
                  ELSE Append(started, After(pc))
    /\ returned' = pc
    /\ failedAt' = failedAt

\* The running function raises; nothing catches the exception.
Raise ==
    /\ pc' = "halted"
    /\ stage' = "end"
    /\ started' = started
    /\ returned' = returned
    /\ failedAt' = pc

\* inspect_dataset_files: sort_values('size_mb') raises KeyError when
\* Original_Data holds no file at all.
Inventory ==
    /\ pc = "inventory"
    /\ IF (\E f \in SourceFiles : original[f].exists) \/ archive.state # "absent"
       THEN Return
       ELSE Raise
    /\ UNCHANGED <<entry, steps, disk, extracted, cleaned, written, df, dateFails, conn,
                   dbPath, tables, imdbResult, run, prevCleaned>>

\* Faulty variant of Load: a missing source file is skipped, the cleaner returns.
Load_SkipsMissing ==
    /\ pc \in CleanerSet /\ stage = "load"
    /\ IF original[SourceOf(pc)].exists
       THEN /\ df' = original[SourceOf(pc)].data
            /\ steps' = <<Taken("load", {})>>
            /\ Goto("dedup")
       ELSE /\ df' = df
            /\ steps' = <<>>
            /\ Return
    /\ UNCHANGED <<entry, disk, extracted, cleaned, written, dateFails, conn,
                   dbPath, tables, imdbResult, run, prevCleaned>>

\* pd.read_csv(original_data_path / <source>): raises when the file is missing.
Load ==
    /\ pc \in CleanerSet /\ stage = "load"
    /\ IF original[SourceOf(pc)].exists
       THEN /\ df' = original[SourceOf(pc)].data
            /\ steps' = <<Taken("load", {})>>
            /\ Goto("dedup")
       ELSE /\ df' = df
            /\ steps' = <<>>
            /\ Raise
    /\ UNCHANGED <<entry, disk, extracted, cleaned, written, dateFails, conn,
                   dbPath, tables, imdbResult, run, prevCleaned>>

\* <frame>_clean = <frame>_clean.drop_duplicates()
Dedup ==
    /\ pc \in CleanerSet /\ stage = "dedup"
    /\ df' = Deduplicate(pc, df)
    /\ steps' = Append(steps, Taken("deduplicate", {}))
    /\ Goto("first")
    /\ UNCHANGED <<entry, disk, extracted, cleaned, written, dateFails, conn,
                   dbPath, tables, imdbResult, run, prevCleaned>>

\* The monetary / numeric / rating loop.
First ==
    /\ pc \in CleanerSet /\ stage = "first"
    /\ df' = FirstPass(pc, df)
    /\ steps' = Append(steps, Taken(FirstCategory(pc), Names(df, FirstColumns(pc, df))))
    /\ Goto("second")
    /\ UNCHANGED <<entry, disk, extracted, cleaned, written, dateFails, conn,
                   dbPath, tables, imdbResult, run, prevCleaned>>

\* The year / date loop.
Second ==
    /\ pc \in CleanerSet /\ stage = "second"
    /\ df' = SecondPass(pc, df, dateFails)
    /\ steps' = Append(steps, Taken(SecondCategory(pc), Names(df, SecondColumns(pc, df))))
    /\ Goto("text")
    /\ UNCHANGED <<entry, disk, extracted, cleaned, written, dateFails, conn,
                   dbPath, tables, imdbResult, run, prevCleaned>>

\* The text loop.
Text ==
    /\ pc \in CleanerSet /\ stage = "text"
    /\ df' = TextPass(pc, df)
    /\ steps' = Append(steps, Taken("text", Names(df, TextColumns(pc, df))))
    /\ Goto("save")
    /\ UNCHANGED <<entry, disk, extracted, cleaned, written, dateFails, conn,
                   dbPath, tables, imdbResult, run, prevCleaned>>

\* <frame>_clean.to_csv(output_file, index=False); return <frame>_clean
Save ==
    /\ pc \in CleanerSet /\ stage = "save"
    /\ cleaned' = WriteCsv(cleaned, OutputOf(pc), df)
    /\ written' = written \cup {OutputOf(pc)}
    /\ steps' = Append(steps, Taken("persist", {}))
    /\ Return
    /\ UNCHANGED <<entry, disk, extracted, df, dateFails, conn, dbPath, tables,
                   imdbResult, run, prevCleaned>>

\* Faulty variant of ImdbExtract: the archive is deleted once it is unpacked.
ImdbExtract_RemovesArchive ==
    /\ pc = "imdb" /\ stage = "extract"
    /\ IF archive.state = "ok"
       THEN /\ extracted' = ExtractAll(extracted, archive.members)
            /\ archive' = NoArchive
            /\ Goto("find")
       ELSE /\ extracted' = extracted
            /\ archive' = archive
            /\ Raise
    /\ UNCHANGED <<entry, steps, original, listing, notebooks, cleaned, written, df,
                   dateFails, conn, dbPath, tables, imdbResult, run, prevCleaned>>

\* extract_path.mkdir(exist_ok=True); zipfile.ZipFile(zip_path) raises when the
\* archive is missing or is no zip file; extractall otherwise.
ImdbExtract ==
    /\ pc = "imdb" /\ stage = "extract"
    /\ IF archive.state = "ok"
       THEN /\ extracted' = ExtractAll(extracted, archive.members)
            /\ Goto("find")
       ELSE /\ extracted' = extracted
            /\ Raise
    /\ UNCHANGED <<entry, steps, disk, cleaned, written, df, dateFails, conn, dbPath,
                   tables, imdbResult, run, prevCleaned>>

\* db_files = list(extract_path.glob('*.db')): return None when there is none,
\* else connect to db_files[0] and read the table names from sqlite_master.
ImdbFind ==
    /\ pc = "imdb" /\ stage = "find"
    /\ IF DbFiles(extracted, listing) = <<>>
       THEN /\ imdbResult' = "None"
            /\ Return
            /\ UNCHANGED <<conn, dbPath, tables>>
       ELSE /\ dbPath' = Head(DbFiles(extracted, listing))
            /\ conn' = "open"
            /\ tables' = extracted[Head(DbFiles(extracted, listing))].tables
            /\ imdbResult' = imdbResult
            /\ Goto("count")
    /\ UNCHANGED <<entry, steps, disk, extracted, cleaned, written, df, dateFails, run,
                   prevCleaned>>

\* for table in tables: cursor.execute(f"SELECT COUNT(*) FROM {table_name}"):
\* raises on a table name the unquoted query cannot name.
ImdbCount ==
    /\ pc = "imdb" /\ stage = "count"
    /\ IF \E i \in DOMAIN tables : tables[i].name \in SqlKeywords
       THEN Raise
       ELSE Goto("tables")
    /\ UNCHANGED <<entry, steps, disk, extracted, cleaned, written, df, dateFails, conn,
                   dbPath, tables, imdbResult, run, prevCleaned>>

\* One turn of the cleaning loop: load the table, clean it, save it.
ImdbCleanTable ==
    /\ pc = "imdb" /\ stage = "tables" /\ tables # <<>>
    /\ df' = CleanImdbTable(Head(tables).frame)
    /\ cleaned' = WriteCsv(cleaned, ImdbOutput(Head(tables).name),
                           CleanImdbTable(Head(tables).frame))
    /\ written' = written \cup {ImdbOutput(Head(tables).name)}
    /\ tables' = Tail(tables)
    /\ returned' = "table"
    /\ UNCHANGED <<entry, steps, pc, stage, started, failedAt, disk, extracted, dateFails,
                   conn, dbPath, imdbResult, run, prevCleaned>>

\* conn.close(); return cleaned_tables
ImdbClose ==
    /\ pc = "imdb" /\ stage = "tables" /\ tables = <<>>
    /\ conn' = "closed"
    /\ imdbResult' = "tables"
    /\ Return
    /\ UNCHANGED <<entry, steps, disk, extracted, cleaned, written, df, dateFails,
                   dbPath, tables, run, prevCleaned>>

\* generate_cleaning_summary: lists Cleaned_Data; its reads are guarded.
Summary ==
    /\ pc = "summary"
    /\ Return
    /\ UNCHANGED <<entry, steps, disk, extracted, cleaned, written, df, dateFails, conn,
                   dbPath, tables, imdbResult, run, prevCleaned>>

\* create_notebooks.py: build the cleaning notebook and write it; open()
\* raises when there is no notebooks/ directory.
CreateCleaningNotebook ==
    /\ pc = "create_notebooks"
    /\ IF notebooks.exists
       THEN /\ notebooks' = WriteNotebook(notebooks, NotebookFileOf(pc),
                                          create_cleaning_notebook)
            /\ Return
       ELSE /\ notebooks' = notebooks
            /\ Raise
    /\ UNCHANGED <<entry, steps, original, archive, listing, extracted, cleaned,
                   written, df, dateFails, conn, dbPath, tables, imdbResult, run,
                   prevCleaned>>

\* create_eda_notebook.py: build the analysis notebook and write it.
CreateEdaNotebook ==
    /\ pc = "create_eda_notebook"
    /\ IF notebooks.exists
       THEN /\ notebooks' = WriteNotebook(notebooks, NotebookFileOf(pc),
                                          create_eda_notebook)
            /\ Return
       ELSE /\ notebooks' = notebooks
            /\ Raise
    /\ UNCHANGED <<entry, steps, original, archive, listing, extracted, cleaned,
                   written, df, dateFails, conn, dbPath, tables, imdbResult, run,
                   prevCleaned>>

\* The same invocation once more, in a new process, over the disk as it is.
Rerun ==
    /\ pc \in {"done", "returned", "halted"}
    /\ run < MaxRuns
    /\ run' = run + 1
    /\ prevCleaned' = cleaned
    /\ pc' \in EntryPoints(entry)
    /\ stage' = FirstStage(pc')
    /\ written' = {}
    /\ df' = EmptyFrame
    /\ conn' = "none"
    /\ dbPath' = Readme
    /\ tables' = <<>>
    /\ imdbResult' = "unset"
    /\ returned' = ""
    /\ failedAt' = ""
    /\ started' = <<pc'>>
    /\ steps' = <<>>
    /\ UNCHANGED <<entry, disk, extracted, cleaned, dateFails>>

Next ==
    \/ Inventory
    \/ Load
    \/ Dedup
    \/ First
    \/ Second
    \/ Text
    \/ Save
    \/ ImdbExtract
    \/ ImdbFind
    \/ ImdbCount
    \/ ImdbCleanTable
    \/ ImdbClose
    \/ Summary
    \/ CreateCleaningNotebook
    \/ CreateEdaNotebook
    \/ Rerun

Spec == Init /\ [][Next]_vars

\* ------------------------------------------------------------------ claims

\* Number of distinct rows of a frame under full-row equality.
DistinctRows(frame) == Cardinality({frame.rows[i] : i \in DOMAIN frame.rows})

\* The raw table cleaner c reads.
RawOf(c) == original[SourceOf(c)].data

\* The tables of the database that was opened.
OpenedTables == extracted[dbPath].tables

\* The output file f exists and holds as many rows as raw has distinct rows,
\* hence no more than raw has rows.
RowCountIsDistinct(f, raw) ==
    /\ cleaned[f].exists
    /\ Len(cleaned[f].data.lines) = DistinctRows(raw)
    /\ Len(cleaned[f].data.lines) <= Len(raw.rows)

\* C1: once a cleaner (a named data set's, or the per-table loop of the
\* database extractor) has written its output in this run, the output file
\* exists and its row count is the number of distinct rows of the raw input,
\* which is never more than the raw row count.
C1_RowCountIsDistinctRawRows ==
    /\ \A c \in CleanerSet :
         OutputOf(c) \in written => RowCountIsDistinct(OutputOf(c), RawOf(c))
    /\ \A t \in TableNames :
         ImdbOutput(t) \in written =>
           \E i \in DOMAIN OpenedTables :
              /\ OpenedTables[i].name = t
              /\ RowCountIsDistinct(ImdbOutput(t), OpenedTables[i].frame)

\* C1 witness: a complete pipeline run over raw tables with a duplicate row has
\* written the five named outputs and a table of the database.
C1_Witness ==
    /\ entry = "main" /\ pc = "done"
    /\ NamedOutputs \subseteq written
    /\ ImdbOutput("movie_basics") \in written
    /\ DuplicatedCount(RawOf("bom")) > 0
    /\ Len(cleaned[OutputOf("bom")].data.lines) = 3

MonetaryKeywords == {KwGross, KwBudget, KwRevenue, KwSales}

RatingKeywords == {KwRating, KwScore, KwPercent}

YearKeywords == {KwYear}

\* C2: in the frame a named cleaner returns and writes, every cell of a column
\* whose name carries a monetary, rating or year keyword is null or a number,
\* and holds no '$', ',' or '%'.
C2_KeywordColumnsAreNumeric ==
    returned \in CleanerSet =>
      \A j \in ColumnsOf(df) :
         HasKeyword(df.columns[j],
                    MonetaryKeywords \cup RatingKeywords \cup YearKeywords) =>
           \A i \in DOMAIN df.rows :
              /\ df.rows[i][j].k \in {"nan", "none", "num"}
              /\ \A p \in DOMAIN df.rows[i][j].s :
                    df.rows[i][j].s[p] \notin {"$", ",", "%"}

\* C3: in the frame a cleaner (named data set or database table) returns and
\* writes, no cell of a column that is still string-typed equals "nan" or has
\* leading or trailing whitespace.
C3_TextColumnsAreTrimmed ==
    returned \in CleanerSet \cup {"table"} =>
      \A j \in ObjectColumns(df) : \A i \in DOMAIN df.rows :
         df.rows[i][j].k = "str" =>
           /\ df.rows[i][j].s # TxtNan
           /\ Strip(df.rows[i][j].s) = df.rows[i][j].s

\* The raw cell behind row i, column j of the frame cleaner c returns: removing
\* duplicates keeps the first of equal rows, in order.
RawCell(c, i, j) == DropDuplicates(RawOf(c)).rows[i][j]

\* The number a string denotes, null when it denotes none.
ParsedNumber(s) == IF AllDigits(Strip(s)) THEN Num(DigitsValue(Strip(s))) ELSE NaN

\* C4: in every named cleaner a string-typed column named with gross, budget
\* or revenue has '$' and ',' deleted from each cell and the rest parsed as a
\* number; what does not parse becomes null.
C4_MoneyStringsAreParsed ==
    returned \in CleanerSet =>
      \A j \in ColumnsOf(df) :
         /\ HasKeyword(df.columns[j], {KwGross, KwBudget, KwRevenue})
         /\ RawOf(returned).dtypes[j] = "object"
         => \A i \in DOMAIN df.rows :
               RawCell(returned, i, j).k = "str" =>
                 df.rows[i][j] = ParsedNumber(DeleteChars(RawCell(returned, i, j).s,
                                                          {"$", ","}))

\* s without a '%' at its end.
WithoutPercentSuffix(s) ==
    IF Len(s) > 0 /\ s[Len(s)] = "%" THEN SubSeq(s, 1, Len(s) - 1) ELSE s

\* C5: in the two critic cleaners a string-typed cell of a rating or score
\* column loses a '%' suffix and is parsed as a number; what does not parse
\* becomes null.
C5_PercentStringsAreParsed ==
    returned \in {"rt_info", "rt_reviews"} =>
      \A j \in ColumnsOf(df) :
         /\ HasKeyword(df.columns[j], {KwRating, KwScore})
         /\ RawOf(returned).dtypes[j] = "object"
         => \A i \in DOMAIN df.rows :
               RawCell(returned, i, j).k = "str" =>
                 df.rows[i][j] = ParsedNumber(WithoutPercentSuffix(RawCell(returned, i, j).s))

\* C6: applying a named cleaner's steps (deduplicate, then normalize every
\* column) to the frame it returned yields that frame again.
C6_CleaningIsIdempotent ==
    returned \in CleanerSet => CleaningSteps(returned, df, dateFails) = df

\* C7: after a second (or later) run of the same invocation over the same raw
\* inputs, every file of Cleaned_Data holds what it held after the run before.
C7_RerunLeavesOutputsUnchanged ==
    (run > 1 /\ pc \in {"done", "returned", "halted"}) => cleaned = prevCleaned

\* C7 witness: a second complete pipeline run that has rewritten the five named
\* outputs and a table of the database.
C7_Witness ==
    /\ entry = "main" /\ run = 2 /\ pc = "done"
    /\ NamedOutputs \subseteq written
    /\ ImdbOutput("movie_basics") \in written
    /\ Len(cleaned[ImdbOutput("movie_basics")].data.lines) = 3

\* The archive was read and holds no .db member.
ArchiveHasNoDb ==
    archive.state = "ok" /\ ~\E m \in archive.members : IsDbFile(m.name)

\* C8: when the archive holds no .db file, the extractor opens no database,
\* writes no imdb_*_cleaned.csv, does not raise and returns None, and the
\* pipeline goes on to the summary with the five named outputs on disk.
C8_NoDbInArchiveSkipsDatabase ==
    ArchiveHasNoDb =>
      /\ conn = "none"
      /\ written \cap ImdbOutputs = {}
      /\ failedAt # "imdb"
      /\ returned = "imdb" =>
           /\ imdbResult = "None"
           /\ entry = "main" =>
                /\ pc = "summary"
                /\ \A c \in CleanerSet : cleaned[OutputOf(c)].exists

\* The cleaners entered in this run before cleaner c.
EnteredBefore(c) ==
    {d \in CleanerSet : \E i, k \in DOMAIN started :
                           i < k /\ started[i] = d /\ started[k] = c}

Entered(f) == \E i \in DOMAIN started : started[i] = f

\* C9: a named cleaner whose source file is absent gets no further than its
\* load; it raises and the run halts there: nothing is entered after it, it
\* writes no output, neither the extractor nor the summary runs, and the
\* outputs of the cleaners before it are on disk as they wrote them.
C9_MissingSourceHaltsRun ==
    \A c \in CleanerSet :
       (Entered(c) /\ ~original[SourceOf(c)].exists) =>
          \/ pc = c /\ stage = "load"
          \/ /\ pc = "halted" /\ failedAt = c
             /\ started[Len(started)] = c
             /\ ~Entered("imdb") /\ ~Entered("summary")
             /\ conn = "none" /\ imdbResult = "unset"
             /\ OutputOf(c) \notin written
             /\ written = {OutputOf(d) : d \in EnteredBefore(c)}
             /\ \A d \in EnteredBefore(c) :
                   cleaned[OutputOf(d)] =
                     [exists |-> TRUE,
                      data   |-> ToCsv(CleaningSteps(d, RawOf(d), dateFails))]

\* C9 witness: the run has halted in the third cleaner, whose source file is
\* missing, after the first two wrote their outputs.
C9_Witness ==
    /\ pc = "halted" /\ failedAt = "tmdb"
    /\ ~original[SourceOf("tmdb")].exists
    /\ written = {OutputOf("bom"), OutputOf("budgets")}

\* C10: in a pipeline run, a missing archive, a corrupt archive or a database
\* without tables never ends the run in the extractor: the extractor returns
\* and the summary is next.
C10_ArchiveFailureNeverHalts ==
    (/\ entry = "main"
     /\ \/ archive.state \in {"absent", "corrupt"}
        \/ conn # "none" /\ OpenedTables = <<>>)
    => /\ failedAt # "imdb"
       /\ returned = "imdb" => pc = "summary"

\* A parsed notebook file: format 4.4, a markdown and a code cell, no other
\* cell type, and code cells without outputs or execution count.
WellFormedNotebook(doc) ==
    /\ doc.nbformat = 4
    /\ doc.nbformat_minor = 4
    /\ \E i \in DOMAIN doc.cells : doc.cells[i].cell_type = "markdown"
    /\ \E i \in DOMAIN doc.cells : doc.cells[i].cell_type = "code"
    /\ \A i \in DOMAIN doc.cells :
         /\ doc.cells[i].cell_type \in {"markdown", "code"}
         /\ doc.cells[i].cell_type = "code" =>
              /\ doc.cells[i].outputs = <<>>
              /\ doc.cells[i].execution_count = "null"

\* C11: a builder script that has returned has written its notebook, and every
\* notebook file on disk has nbformat 4 and nbformat_minor 4, at least one
\* markdown and one code cell, only markdown and code cells, and in every code
\* cell an empty outputs list and a null execution_count.
C11_NotebooksAreWellFormed ==
    /\ returned \in NotebookScripts => notebooks.files[NotebookFileOf(returned)].exists
    /\ \A f \in NotebookFiles :
         notebooks.files[f].exists => WellFormedNotebook(notebooks.files[f].doc)

\* Both scripts have run and both notebooks are on disk.
C11_Witness ==
    /\ entry = "notebooks"
    /\ returned \in NotebookScripts
    /\ \A f \in NotebookFiles : notebooks.files[f].exists

\* C12: no step of the pipeline changes a raw source file or the archive of
\* Original_Data, in complete and in halted runs alike; what a step writes is
\* in Cleaned_Data or in Original_Data/extracted (and the pipeline leaves the
\* notebooks alone).
C12_RawSourcesAreNeverWritten ==
    [][/\ original' = original
       /\ archive' = archive
       /\ entry # "notebooks" => notebooks' = notebooks]_vars

\* A complete run that unpacked the archive and wrote the named outputs and a
\* table of the database.
C12_Witness ==
    /\ entry = "main"
    /\ pc = "done"
    /\ archive.state = "ok"
    /\ extracted[ImDb].exists
    /\ NamedOutputs \subseteq written
    /\ \E t \in TableNames : ImdbOutput(t) \in written

\* The call of extract_and_clean_imdb_data has ended: it returned or it raised.
ImdbCallEnded == returned = "imdb" \/ failedAt = "imdb"

\* C13: when the call of extract_and_clean_imdb_data has ended, by return or
\* by an error, the database connection it opened is not open any more.
C13_ConnectionClosedOnEveryPath == ImdbCallEnded => conn # "open"

Categories == {"monetary", "date", "year", "rating", "numeric", "text"}

\* The category passes, among the steps taken, whose column list holds `name`.
ClaimedBy(name) ==
    {i \in DOMAIN steps : steps[i].step \in Categories /\ name \in steps[i].columns}

\* C14: when a named cleaner has returned, every column of its frame was in
\* the column list of at most one category pass, so that no column is
\* normalized by two passes.
C14_OneCategoryPerColumn ==
    returned \in CleanerSet =>
        \A j \in ColumnsOf(df) : Cardinality(ClaimedBy(df.columns[j])) <= 1

\* Among the steps taken, every pass of category a comes before every pass of
\* category b.
RunsBefore(a, b) ==
    \A i, k \in DOMAIN steps :
        (steps[i].step = a /\ steps[k].step = b) => i < k

\* C15: when a named cleaner has returned, its monetary pass ran before its
\* text pass, its date or year pass before its numeric pass, and its rating
\* pass before its text pass.
C15_PassesRunInPriorityOrder ==
    returned \in CleanerSet =>
        /\ RunsBefore("monetary", "text")
        /\ RunsBefore("date", "numeric")
        /\ RunsBefore("year", "numeric")
        /\ RunsBefore("rating", "text")

\* The order of the pipeline's steps.
PipelineOrder ==
    <<"inventory", "bom", "budgets", "tmdb", "rt_info", "rt_reviews", "imdb", "summary">>

\* The functions entered so far are the first ones of the pipeline's order.
StartedInOrder ==
    /\ Len(started) <= Len(PipelineOrder)
    /\ \A i \in DOMAIN started : started[i] = PipelineOrder[i]

\* The steps of the cleaner entered last: load, deduplicate, three category
\* passes, persist.
StepsInOrder ==
    /\ Len(steps) <= 6
    /\ \A i \in DOMAIN steps :
         steps[i].step \in (CASE i = 1 -> {"load"}
                              [] i = 2 -> {"deduplicate"}
                              [] i = 6 -> {"persist"}
                              [] OTHER -> Categories)
    /\ (returned \in CleanerSet /\ failedAt = "") => Len(steps) = 6

\* The summary is entered only in a run in which every cleaner and the
\* extractor have returned.
SummaryComesLast ==
    Entered("summary") =>
        /\ \A i \in 1..(Len(PipelineOrder) - 1) : Entered(PipelineOrder[i])
        /\ NamedOutputs \subseteq written
        /\ imdbResult # "unset"
        /\ failedAt = ""

\* A function is entered, within a run, only as the one before it returns.
EnteredOnReturn ==
    (run' = run /\ started' # started) =>
        /\ started' = Append(started, pc')
        /\ returned' = started[Len(started)]
        /\ failedAt' = ""

\* C16: in a run of the pipeline the functions are entered in the order
\* inventory, the five cleaners, extractor, summary, each only when the one
\* before it has returned; a cleaner's steps are load, deduplicate, normalize,
\* persist in that order; and the summary is entered only after all others
\* have returned.
C16_PipelineRunsInFixedOrder ==
    /\ [](entry = "main" => (StartedInOrder /\ StepsInOrder /\ SummaryComesLast))
    /\ [][entry = "main" => EnteredOnReturn]_vars

\* A complete run: all eight functions were entered and the summary returned.
C16_Witness ==
    /\ entry = "main"
    /\ pc = "done"
    /\ returned = "summary"
    /\ Len(started) = Len(PipelineOrder)
    /\ Len(steps) = 6

\* The cleaners that have a date pass.
DateCleaners == {"budgets", "tmdb", "rt_reviews"}

\* Column j of a frame: its dtype and its cells.
ColumnOf(frame, j) ==
    [dtype |-> frame.dtypes[j],
     cells |-> [i \in DOMAIN frame.rows |-> frame.rows[i][j]]]

\* C17: when a cleaner with a date pass has returned after pd.to_datetime
\* raised on some of its date columns, each of those columns is as it was
\* before the date pass, every other column is as a run without the failure
\* leaves it, and the returned frame is in the output file; and such a
\* cleaner raises only when its source file is missing.
C17_DateFailureIsContained ==
    /\ (returned \in DateCleaners /\ entry = returned) =>
          /\ failedAt = ""
          /\ cleaned[OutputOf(returned)] = [exists |-> TRUE, data |-> ToCsv(df)]
          /\ \A j \in ColumnsOf(df) :
               IF df.columns[j] \in dateFails
               THEN ColumnOf(df, j) =
                      ColumnOf(FirstPass(returned, Deduplicate(returned, RawOf(returned))), j)
               ELSE ColumnOf(df, j) =
                      ColumnOf(CleaningSteps(returned, RawOf(returned), {}), j)
    /\ failedAt \in DateCleaners => ~original[SourceOf(failedAt)].exists

\* The budgets cleaner has returned a frame of two columns after the parse of
\* its release_date column, which holds a string, raised.
C17_Witness ==
    /\ entry = "budgets"
    /\ returned = "budgets"
    /\ dateFails = {ColReleaseDate}
    /\ Len(df.columns) = 2
    /\ df.columns[1] = ColReleaseDate
    /\ \E i \in DOMAIN df.rows : df.rows[i][1].k = "str"
    /\ cleaned[OutputOf("budgets")].exists

\* The paths the code cells of a notebook hand to pd.read_csv.
ReadPaths(doc) ==
    UNION {{doc.cells[i].source[k] : k \in DOMAIN doc.cells[i].source} :
              i \in {h \in DOMAIN doc.cells : doc.cells[h].cell_type = "code"}}

\* The path names a file the pipeline writes, and that file is on disk.
IsWrittenOutput(path) ==
    /\ path.name \in OutputFiles
    /\ path = OutputPath(path.name)
    /\ cleaned[path.name].exists

\* C18: after a complete run of the pipeline, every path a code cell of the
\* exploratory-analysis notebook reads is the path of an output file of the
\* pipeline (same directory name, same file name) and that file exists.
C18_NotebookReadsPipelineOutputs ==
    (entry = "main" /\ pc = "done" /\ failedAt = "") =>
        \A path \in ReadPaths(JsonDump(create_eda_notebook)) : IsWrittenOutput(path)

====
